---- MODULE Spec2Model ----
(***************************************************************************)
(* Model of app.py of the resume builder: the text wrapper split_text, the *)
(* divider draw_gradient_line, the layout engine generate_pdf with its     *)
(* nested add_section_header, the grammar correction correct_text and the  *)
(* record store used by the /api/generate handler.                         *)
(*                                                                         *)
(* Python strings are sequences of one-character strings, so that len,     *)
(* concatenation, split() and strip() are computed as Python computes them.*)
(***************************************************************************)
EXTENDS Integers, Sequences, FiniteSets, TLC

VARIABLES
    \* split_text called on its own
    text, max_width, lines, wrap_pc,
    \* one generate_pdf call
    GRADIENT_SUPPORTED, pc, y, doc, todo, emitted, headings,
    \* one correct_text call
    LT_USERNAME, LT_API_KEY, ctext, response, posted, corrected, correct_pc,
    \* the /api/generate requests and the file data/resumes.json
    db_file, clock, req_pc, req_id, req_entries

wrapVars == <<text, max_width, lines, wrap_pc>>
pdfVars == <<GRADIENT_SUPPORTED, pc, y, doc, todo, emitted, headings>>
correctVars == <<LT_USERNAME, LT_API_KEY, ctext, response, posted, corrected, correct_pc>>
dbVars == <<db_file, clock, req_pc, req_id, req_entries>>
vars == <<wrapVars, pdfVars, correctVars, dbVars>>

(***************************************************************************)
(* Bounds of the model.                                                    *)
(***************************************************************************)
\* longest string handed to split_text when it is called on its own
MaxLen == 8
\* largest width budget handed to split_text when it is called on its own
MaxWidth == 16
\* longest experience / education list of a document
MaxEntries == 2
\* most matches in one answer of the correction service
MaxMatches == 2
\* number of /api/generate requests
NumRequests == 3
\* last millisecond the clock reaches
MaxClock == 2

(***************************************************************************)
(* Strings.                                                                *)
(***************************************************************************)
Space == " "
IsSpace(ch) == ch = Space

RECURSIVE StringsUpTo(_, _)
StringsUpTo(chars, n) ==
    IF n = 0 THEN {<<>>}
    ELSE LET shorter == StringsUpTo(chars, n - 1)
         IN shorter \cup {Append(s, ch) : s \in shorter, ch \in chars}

\* first position from i on that holds whitespace (or not), Len(s) + 1 if none
NextWhere(s, i, space) ==
    CHOOSE j \in i..(Len(s) + 1) : j = Len(s) + 1 \/ (IsSpace(s[j]) <=> space)

\* str.split(): the maximal runs of non-whitespace characters, in order
RECURSIVE SplitFrom(_, _, _)
SplitFrom(s, i, out) ==
    LET start == NextWhere(s, i, FALSE)
        end == NextWhere(s, start, TRUE)
    IN IF start > Len(s) THEN out
       ELSE SplitFrom(s, end, Append(out, SubSeq(s, start, end - 1)))

Split(s) == SplitFrom(s, 1, <<>>)

\* sep.join(parts)
RECURSIVE JoinFrom(_, _, _)
JoinFrom(parts, sep, i) ==
    IF i > Len(parts) THEN <<>>
    ELSE IF i = Len(parts) THEN parts[i]
    ELSE parts[i] \o sep \o JoinFrom(parts, sep, i + 1)

Join(parts, sep) == JoinFrom(parts, sep, 1)

\* str.strip(): leading and trailing whitespace removed
RECURSIVE LStripFrom(_, _)
LStripFrom(s, i) ==
    IF i > Len(s) THEN <<>>
    ELSE IF IsSpace(s[i]) THEN LStripFrom(s, i + 1)
    ELSE SubSeq(s, i, Len(s))

RECURSIVE RStripTo(_, _)
RStripTo(s, j) ==
    IF j < 1 THEN <<>>
    ELSE IF IsSpace(s[j]) THEN RStripTo(s, j - 1)
    ELSE SubSeq(s, 1, j)

Strip(s) == LET l == LStripFrom(s, 1) IN RStripTo(l, Len(l))

\* Python truthiness of a str or a list
Truthy(v) == v # <<>>

\* dict.get(key, default)
Get(d, key, default) == IF key \in DOMAIN d THEN d[key] ELSE default

(***************************************************************************)
(* split_text                                                              *)
(***************************************************************************)
\* estimated points per character
CharWidth == 5

\* as Overflows, with the separating space left out of the measure
OverflowsUnspaced(test, width) == (Len(test) - 1) * CharWidth > width

Overflows(test, width) == Len(test) * CharWidth > width

RECURSIVE split_loop(_, _, _, _, _)
split_loop(words, i, acc, current, width) ==
    IF i > Len(words)
    THEN (IF Truthy(current) THEN Append(acc, current) ELSE acc)
    ELSE LET word == words[i]
             test == current \o (IF Truthy(current) THEN <<Space>> ELSE <<>>) \o word
         IN IF Overflows(test, width)
            THEN split_loop(words, i + 1, Append(acc, current), word, width)
            ELSE split_loop(words, i + 1, acc, test, width)

split_text(t, width) == split_loop(Split(t), 1, <<>>, <<>>, width)

WrapChars == {"a", "b", Space}
WrapTexts == StringsUpTo(WrapChars, MaxLen)
WrapWidths == 1..MaxWidth

WrapInit ==
    /\ text \in WrapTexts
    /\ max_width \in WrapWidths
    /\ lines = <<>>
    /\ wrap_pc = "call"

CallSplitText ==
    /\ wrap_pc = "call"
    /\ lines' = split_text(text, max_width)
    /\ wrap_pc' = "returned"
    /\ UNCHANGED <<text, max_width>>

(***************************************************************************)
(* generate_pdf: constants of the layout                                   *)
(***************************************************************************)
\* reportlab.lib.pagesizes.letter is (612, 792)
PageHeight == 792
TopMargin == 40
LeftMargin == 50
NameAdvance == 28
ContactAdvance == 14
ContactGap == 12
HeadingGap == 4
PostDividerGap == 8
BodyLineAdvance == 12
SectionGap == 12
TitleAdvance == 14
DateAdvance == 12
EntryGap == 8
WrapWidth == 500
DividerWidth == 500
DividerHeight == 3
DividerTrail == 2

\* string literals of the source
Str_Resume == <<"R", "e", "s", "u", "m", "e">>
Str_EmailLabel == <<"E", "m", "a", "i", "l", ":", " ">>
Str_PhoneLabel == <<"P", "h", "o", "n", "e", ":", " ">>
Str_AddressLabel == <<"A", "d", "d", "r", "e", "s", "s", ":", " ">>
Str_CommaSpace == <<",", " ">>
Str_At == <<" ", "a", "t", " ">>
\* " – " (the dash stands for U+2013, one character)
Str_Dash == <<" ", "-", " ">>
Str_Present == <<"P", "r", "e", "s", "e", "n", "t">>

\* c.drawString(50, y, text) under the font set last
TextRun(yy, t, font, size) ==
    [kind |-> "text", x |-> LeftMargin, y |-> yy, text |-> t, font |-> font, size |-> size]

(***************************************************************************)
(* draw_gradient_line and add_section_header                               *)
(***************************************************************************)
\* as draw_gradient_line, with the trailing gap only in the gradient branch
draw_gradient_line_nogap(yy, width, height, gradient) ==
    IF gradient
    THEN [prims |-> <<[kind |-> "gradient", x |-> LeftMargin, y |-> yy - height,
                       width |-> width, height |-> height]>>,
          ret |-> height + DividerTrail]
    ELSE [prims |-> <<[kind |-> "rect", x |-> LeftMargin, y |-> yy - height,
                       width |-> width, height |-> height]>>,
          ret |-> height]

draw_gradient_line(yy, width, height, gradient) ==
    IF gradient
    THEN [prims |-> <<[kind |-> "gradient", x |-> LeftMargin, y |-> yy - height,
                       width |-> width, height |-> height]>>,
          ret |-> height + DividerTrail]
    ELSE [prims |-> <<[kind |-> "rect", x |-> LeftMargin, y |-> yy - height,
                       width |-> width, height |-> height]>>,
          ret |-> height + DividerTrail]

add_section_header(yy, title, gradient) ==
    LET y1 == yy - HeadingGap
        line == draw_gradient_line(y1, DividerWidth, DividerHeight, gradient)
        y2 == y1 - line.ret
        y3 == y2 - PostDividerGap
    IN [y |-> y3,
        prims |-> <<TextRun(yy, title, "Helvetica-Bold", 14)>> \o line.prims]

\* as draw_lines, with the cursor moved up the page instead of down
draw_lines_up(yy, ls, font, size) ==
    [y |-> yy + BodyLineAdvance * Len(ls),
     prims |-> [i \in 1..Len(ls) |->
                  TextRun(yy + BodyLineAdvance * (i - 1), ls[i], font, size)]]

\* for line in ls: c.drawString(50, y, line); y -= 12
draw_lines(yy, ls, font, size) ==
    [y |-> yy - BodyLineAdvance * Len(ls),
     prims |-> [i \in 1..Len(ls) |->
                  TextRun(yy - BodyLineAdvance * (i - 1), ls[i], font, size)]]

\* the contact lines, in the fixed order email, phone, address
contact_lines(personal) ==
    (IF Truthy(Get(personal, "email", <<>>))
     THEN <<Str_EmailLabel \o personal["email"]>> ELSE <<>>)
    \o (IF Truthy(Get(personal, "phone", <<>>))
        THEN <<Str_PhoneLabel \o personal["phone"]>> ELSE <<>>)
    \o (IF Truthy(Get(personal, "address", <<>>))
        THEN <<Str_AddressLabel \o personal["address"]>> ELSE <<>>)

\* for line in contacts: c.drawString(50, y, line); y -= 14
draw_contacts(yy, contacts) ==
    [y |-> yy - ContactAdvance * Len(contacts) - ContactGap,
     prims |-> [i \in 1..Len(contacts) |->
                  TextRun(yy - ContactAdvance * (i - 1), contacts[i], "Helvetica", 10)]]

\* as experience_title, without the strip()
experience_title_raw(exp) ==
    Get(exp, "position", <<>>) \o Str_At \o Get(exp, "company", <<>>)

experience_title(exp) ==
    Strip(Get(exp, "position", <<>>) \o Str_At \o Get(exp, "company", <<>>))

experience_dates(exp) ==
    Strip(Get(exp, "startDate", <<>>) \o Str_Dash \o Get(exp, "endDate", Str_Present))

education_title(edu) ==
    Strip(Get(edu, "degree", <<>>) \o Str_At \o Get(edu, "institution", <<>>))

\* as education_dates, with the default of the experience loop
education_dates_present(edu) ==
    Strip(Get(edu, "startDate", <<>>) \o Str_Dash \o Get(edu, "endDate", Str_Present))

education_dates(edu) ==
    Strip(Get(edu, "startDate", <<>>) \o Str_Dash \o Get(edu, "endDate", <<>>))

\* the body of the experience loop; the education loop has the same code
draw_entry(yy, title, dates, desc) ==
    LET y1 == yy - TitleAdvance
        p1 == <<TextRun(yy, title, "Helvetica-Bold", 12)>>
        y2 == IF Truthy(dates) THEN y1 - DateAdvance ELSE y1
        p2 == IF Truthy(dates) THEN <<TextRun(y1, dates, "Helvetica-Oblique", 8)>> ELSE <<>>
        body == IF Truthy(desc)
                THEN draw_lines(y2, split_text(desc, WrapWidth), "Helvetica", 10)
                ELSE [y |-> y2, prims |-> <<>>]
    IN [y |-> body.y - EntryGap, prims |-> p1 \o p2 \o body.prims]

(***************************************************************************)
(* The documents handed to generate_pdf.  resume is only read, and each    *)
(* key (and each list element) is read once, so the part a step reads is   *)
(* chosen at that step and kept in doc.  A missing key is a key that is    *)
(* not in the domain of the dictionary.                                    *)
(***************************************************************************)
RECURSIVE Repeat(_, _, _)
Repeat(word, sep, n) ==
    IF n = 0 THEN <<>>
    ELSE IF n = 1 THEN word
    ELSE word \o sep \o Repeat(word, sep, n - 1)

\* two words of 49 characters and a space between them are 99 characters, the
\* most that WrapWidth / CharWidth = 100 lets onto a line
Word49 == Repeat(<<"l", "o", "r", "e", "m", "-", "i">>, <<>>, 7)
OneLine == <<"P", "i", "o", "n", "e", "e", "r", " ", "o", "f", " ", "c", "o", "m", "p", "u", "t", "i", "n", "g", ".">>
TwoLines == Repeat(Word49, <<Space>>, 3)

\* every dictionary over a subset of keys, each value from opts[key]
RECURSIVE DictsOver(_, _)
DictsOver(opts, keys) ==
    IF keys = {} THEN {<<>>}
    ELSE LET key == CHOOSE k \in keys : TRUE
             rest == DictsOver(opts, keys \ {key})
         IN rest \cup {d @@ (key :> v) : d \in rest, v \in opts[key]}

Dicts(opts) == DictsOver(opts, DOMAIN opts)

Str_Ada == <<"A", "d", "a">>
Str_Mail == <<"a", "@", "b">>
Str_Tel == <<"5", "5", "5">>
Str_Town == <<"L", "d", "n">>

Personals ==
    {[name |-> Str_Ada],
     [name |-> Str_Ada, email |-> <<>>, address |-> Str_Town],
     [name |-> Str_Ada, email |-> Str_Mail, phone |-> Str_Tel, address |-> Str_Town]}

Summaries == Dicts([summary |-> {<<>>, OneLine, TwoLines}])

SkillLists == Dicts([skills |-> {<<>>, <<<<"C", "+", "+">>, <<"R", "u", "s", "t">>, <<"G", "o">>>>}])

\* a list of n elements that the loop has yet to read
Unread(n) == [i \in 1..n |-> "unread"]
ExperienceLists == Dicts([experience |-> {Unread(n) : n \in 0..MaxEntries}])
EducationLists == Dicts([education |-> {Unread(n) : n \in 0..MaxEntries}])

Dates == {<<>>, <<"2", "0", "2", "0">>}
Descriptions == {<<>>, TwoLines}

ExperienceEntries ==
    Dicts([position |-> {<<"E", "n", "g">>}, company |-> {<<"A", "c", "m", "e">>},
           startDate |-> Dates, endDate |-> Dates, description |-> Descriptions])

EducationEntries ==
    Dicts([degree |-> {<<"B", "S", "c">>}, institution |-> {<<"M", "I", "T">>},
           startDate |-> Dates, endDate |-> Dates, description |-> Descriptions])

(***************************************************************************)
(* generate_pdf, statement block by statement block                        *)
(***************************************************************************)
PdfInit ==
    /\ GRADIENT_SUPPORTED \in BOOLEAN
    /\ pc = "name"
    /\ y = PageHeight - TopMargin
    /\ doc = <<>>
    /\ todo = 0
    /\ emitted = <<>>
    /\ headings = <<>>

DrawName ==
    /\ pc = "name"
    /\ \E personal \in Personals :
        /\ doc' = personal
        /\ emitted' = <<TextRun(y, Get(personal, "name", Str_Resume), "Helvetica-Bold", 22)>>
    /\ y' = y - NameAdvance
    /\ pc' = "contacts"
    /\ UNCHANGED <<GRADIENT_SUPPORTED, todo, headings>>

DrawContacts ==
    /\ pc = "contacts"
    /\ LET r == draw_contacts(y, contact_lines(doc))
       IN /\ y' = r.y
          /\ emitted' = r.prims
    /\ pc' = "summary"
    /\ UNCHANGED <<GRADIENT_SUPPORTED, doc, todo, headings>>

\* as section_present, true of every key that is there, empty or not
section_present_key(resume, key, empty) == key \in DOMAIN resume

\* data = resume.get(key, empty); if data:
section_present(resume, key, empty) == Truthy(Get(resume, key, empty))

\* if data: add_section_header(title), else fall through to the next section
SectionStart(here, key, title, inputs, empty, body, next) ==
    /\ pc = here
    /\ \E resume \in inputs :
        /\ doc' = resume
        /\ IF section_present(resume, key, empty)
           THEN LET h == add_section_header(y, title, GRADIENT_SUPPORTED)
                IN /\ y' = h.y
                   /\ emitted' = h.prims
                   /\ headings' = Append(headings, title)
                   /\ todo' = Len(Get(resume, key, empty))
                   /\ pc' = body
           ELSE /\ emitted' = <<>>
                /\ todo' = 0
                /\ pc' = next
                /\ UNCHANGED <<y, headings>>
    /\ UNCHANGED GRADIENT_SUPPORTED

\* the wrapped block of the Summary and Skills sections
TextBody(here, t, next) ==
    /\ pc = here
    /\ LET r == draw_lines(y, split_text(t, WrapWidth), "Helvetica", 10)
       IN /\ y' = r.y - SectionGap
          /\ emitted' = r.prims
    /\ pc' = next
    /\ todo' = 0
    /\ UNCHANGED <<GRADIENT_SUPPORTED, doc, headings>>

SummaryStart ==
    SectionStart("summary", "summary", "Summary", Summaries, <<>>, "summary_body", "skills")

SummaryBody == TextBody("summary_body", doc["summary"], "skills")

SkillsStart ==
    SectionStart("skills", "skills", "Skills", SkillLists, <<>>, "skills_body", "experience")

SkillsBody == TextBody("skills_body", Join(doc["skills"], Str_CommaSpace), "experience")

ExperienceStart ==
    SectionStart("experience", "experience", "Experience", ExperienceLists, <<>>,
                 "experience_loop", "education")

ExperienceEntry ==
    /\ pc = "experience_loop"
    /\ todo > 0
    /\ \E exp \in ExperienceEntries :
        LET r == draw_entry(y, experience_title(exp), experience_dates(exp),
                            Get(exp, "description", <<>>))
        IN /\ doc' = exp
           /\ y' = r.y
           /\ emitted' = r.prims
    /\ pc' = "experience_drawn"
    /\ UNCHANGED <<GRADIENT_SUPPORTED, todo, headings>>

\* the for statement moves on to the next element, or ends
ExperienceAdvance ==
    /\ pc = "experience_drawn"
    /\ todo' = todo - 1
    /\ doc' = <<>>
    /\ emitted' = <<>>
    /\ pc' = "experience_loop"
    /\ UNCHANGED <<GRADIENT_SUPPORTED, y, headings>>

ExperienceEnd ==
    /\ pc = "experience_loop"
    /\ todo = 0
    /\ y' = y - SectionGap
    /\ emitted' = <<>>
    /\ doc' = <<>>
    /\ pc' = "education"
    /\ UNCHANGED <<GRADIENT_SUPPORTED, todo, headings>>

EducationStart ==
    SectionStart("education", "education", "Education", EducationLists, <<>>,
                 "education_loop", "save")

EducationEntry ==
    /\ pc = "education_loop"
    /\ todo > 0
    /\ \E edu \in EducationEntries :
        LET r == draw_entry(y, education_title(edu), education_dates(edu),
                            Get(edu, "description", <<>>))
        IN /\ doc' = edu
           /\ y' = r.y
           /\ emitted' = r.prims
    /\ pc' = "education_drawn"
    /\ UNCHANGED <<GRADIENT_SUPPORTED, todo, headings>>

\* the for statement moves on to the next element, or ends
EducationAdvance ==
    /\ pc = "education_drawn"
    /\ todo' = todo - 1
    /\ doc' = <<>>
    /\ emitted' = <<>>
    /\ pc' = "education_loop"
    /\ UNCHANGED <<GRADIENT_SUPPORTED, y, headings>>

EducationEnd ==
    /\ pc = "education_loop"
    /\ todo = 0
    /\ y' = y - SectionGap
    /\ emitted' = <<>>
    /\ doc' = <<>>
    /\ pc' = "save"
    /\ UNCHANGED <<GRADIENT_SUPPORTED, todo, headings>>

Save ==
    /\ pc = "save"
    /\ pc' = "done"
    /\ emitted' = <<>>
    /\ UNCHANGED <<GRADIENT_SUPPORTED, y, doc, todo, headings>>

WrapIdle ==
    /\ text = <<>>
    /\ max_width = 1
    /\ lines = <<>>
    /\ wrap_pc = "idle"

PdfIdle ==
    /\ GRADIENT_SUPPORTED = TRUE
    /\ pc = "idle"
    /\ y = 0
    /\ doc = <<>>
    /\ todo = 0
    /\ emitted = <<>>
    /\ headings = <<>>

(***************************************************************************)
(* correct_text                                                            *)
(***************************************************************************)
Min(a, b) == IF a < b THEN a ELSE b

\* s[:n] and s[n:] for n >= 0
SliceTo(s, n) == SubSeq(s, 1, Min(n, Len(s)))
SliceFrom(s, n) == SubSeq(s, Min(n, Len(s)) + 1, Len(s))

\* sorted(matches, key=lambda m: m["offset"], reverse=True): stable, descending
RECURSIVE InsertDesc(_, _)
InsertDesc(sorted, m) ==
    IF sorted = <<>> THEN <<m>>
    ELSE IF Head(sorted)["offset"] >= m["offset"]
         THEN <<Head(sorted)>> \o InsertDesc(Tail(sorted), m)
         ELSE <<m>> \o sorted

RECURSIVE SortedDescFrom(_, _, _)
SortedDescFrom(matches, i, sorted) ==
    IF i > Len(matches) THEN sorted
    ELSE SortedDescFrom(matches, i + 1, InsertDesc(sorted, matches[i]))

SortedByOffsetDesc(matches) == SortedDescFrom(matches, 1, <<>>)

\* the loop over the sorted matches; "raise" stands for a KeyError
RECURSIVE apply_matches(_, _, _)
apply_matches(matches, i, acc) ==
    IF i > Len(matches) THEN [raised |-> FALSE, value |-> acc]
    ELSE LET match == matches[i]
             replacements == Get(match, "replacements", <<>>)
         IN IF ~Truthy(replacements) THEN apply_matches(matches, i + 1, acc)
            ELSE IF "length" \notin DOMAIN match THEN [raised |-> TRUE, value |-> acc]
            ELSE LET replacement == Get(replacements[1], "value", <<>>)
                     start == match["offset"]
                     end == match["offset"] + match["length"]
                 IN apply_matches(matches, i + 1,
                                  SliceTo(acc, start) \o replacement \o SliceFrom(acc, end))

\* the form data of the request
request_data(t, username, key) ==
    IF Truthy(username) /\ Truthy(key)
    THEN [text |-> t, language |-> "auto", username |-> username, apiKey |-> key]
    ELSE [text |-> t, language |-> "auto"]

\* the value correct_text returns, given what requests.post does
correct_text(t, resp) ==
    IF ~Truthy(t) \/ ~Truthy(Strip(t)) THEN t
    ELSE IF resp.kind = "exception" THEN t
    ELSE IF resp.status_code # 200 THEN t
    ELSE IF ~resp.is_json THEN t
    ELSE LET matches == Get(resp.json, "matches", <<>>)
         IN IF \E i \in 1..Len(matches) : "offset" \notin DOMAIN matches[i] THEN t
            ELSE LET r == apply_matches(SortedByOffsetDesc(matches), 1, t)
                 IN IF r.raised THEN t ELSE r.value

\* whether correct_text gets as far as requests.post
posts_request(t) == Truthy(t) /\ Truthy(Strip(t))

RECURSIVE SeqsUpTo(_, _)
SeqsUpTo(S, n) ==
    IF n = 0 THEN {<<>>}
    ELSE LET shorter == SeqsUpTo(S, n - 1)
         IN shorter \cup {Append(q, x) : q \in shorter, x \in S}

Credentials == {<<>>, <<"k">>}
CorrectTexts == {<<>>, <<Space>>, <<"t", "e", "h">>, <<"a", " ", "b">>}
Replacements == {<<>>, <<[value |-> <<"x", "y">>]>>, <<[shortDescription |-> <<"x">>]>>}
Matches == Dicts([offset |-> {0, 2}, length |-> {1}, replacements |-> Replacements])
Bodies == Dicts([matches |-> SeqsUpTo(Matches, MaxMatches)])
Responses ==
    {[kind |-> "exception"]}
    \cup {[kind |-> "reply", status_code |-> 500, is_json |-> FALSE, json |-> <<>>],
          [kind |-> "reply", status_code |-> 200, is_json |-> FALSE, json |-> <<>>]}
    \cup {[kind |-> "reply", status_code |-> sc, is_json |-> TRUE, json |-> b]
          : sc \in {200, 500}, b \in Bodies}

CorrectInit ==
    /\ LT_USERNAME \in Credentials
    /\ LT_API_KEY \in Credentials
    /\ ctext \in CorrectTexts
    /\ response \in Responses
    /\ posted = <<>>
    /\ corrected = <<>>
    /\ correct_pc = "call"

CorrectText ==
    /\ correct_pc = "call"
    /\ posted' = IF posts_request(ctext)
                 THEN <<request_data(ctext, LT_USERNAME, LT_API_KEY)>> ELSE <<>>
    /\ corrected' = correct_text(ctext, response)
    /\ correct_pc' = "returned"
    /\ UNCHANGED <<LT_USERNAME, LT_API_KEY, ctext, response>>

CorrectIdle ==
    /\ LT_USERNAME = <<>>
    /\ LT_API_KEY = <<>>
    /\ ctext = <<>>
    /\ response = [kind |-> "exception"]
    /\ posted = <<>>
    /\ corrected = <<>>
    /\ correct_pc = "idle"

(***************************************************************************)
(* /api/generate with load_database and save_database.  The development    *)
(* server handles requests in threads, so the steps of two requests        *)
(* interleave; nothing in the handler locks the file.                      *)
(***************************************************************************)
Requests == 1..NumRequests

\* data/resumes.json: missing, opened for writing and not yet written, or written
NoFile == [state |-> "missing", entries |-> <<>>]
Truncated == [state |-> "truncated", entries |-> <<>>]
Written(entries) == [state |-> "written", entries |-> entries]

load_database(file) ==
    IF file.state = "missing" THEN <<>>
    ELSE IF file.state = "truncated" THEN <<>>
    ELSE file.entries

\* the record of request r: its id and, standing for its data, r itself
Record(r, id) == [id |-> id, data |-> r]

DbInit ==
    /\ db_file = NoFile
    /\ clock = 0
    /\ req_pc = [r \in Requests |-> "received"]
    /\ req_id = [r \in Requests |-> 0]
    /\ req_entries = [r \in Requests |-> <<>>]

Tick ==
    /\ clock < MaxClock
    /\ clock' = clock + 1
    /\ UNCHANGED <<db_file, req_pc, req_id, req_entries>>

\* personal.name is missing: 400
Reject(r) ==
    /\ req_pc[r] = "received"
    /\ req_pc' = [req_pc EXCEPT ![r] = "rejected"]
    /\ UNCHANGED <<db_file, clock, req_id, req_entries>>

\* correct_resume, resume_id from the clock, generate_pdf
Render(r) ==
    /\ req_pc[r] = "received"
    /\ req_id' = [req_id EXCEPT ![r] = clock]
    /\ req_pc' = [req_pc EXCEPT ![r] = "rendered"]
    /\ UNCHANGED <<db_file, clock, req_entries>>

\* entries = load_database(); entries.append({...})
Load(r) ==
    /\ req_pc[r] = "rendered"
    /\ req_entries' = [req_entries EXCEPT
                         ![r] = Append(load_database(db_file), Record(r, req_id[r]))]
    /\ req_pc' = [req_pc EXCEPT ![r] = "loaded"]
    /\ UNCHANGED <<db_file, clock, req_id>>

\* save_database: open(..., "w") truncates the file
SaveOpen(r) ==
    /\ req_pc[r] = "loaded"
    /\ db_file' = Truncated
    /\ req_pc' = [req_pc EXCEPT ![r] = "writing"]
    /\ UNCHANGED <<clock, req_id, req_entries>>

\* save_database: json.dump and close; then the 200 response
SaveDump(r) ==
    /\ req_pc[r] = "writing"
    /\ db_file' = Written(req_entries[r])
    /\ req_pc' = [req_pc EXCEPT ![r] = "responded"]
    /\ UNCHANGED <<clock, req_id, req_entries>>

DbIdle ==
    /\ db_file = NoFile
    /\ clock = 0
    /\ req_pc = [r \in Requests |-> "idle"]
    /\ req_id = [r \in Requests |-> 0]
    /\ req_entries = [r \in Requests |-> <<>>]

(***************************************************************************)
(* Specifications                                                          *)
(***************************************************************************)
\* one generate_pdf call
Init == PdfInit /\ WrapIdle /\ CorrectIdle /\ DbIdle

notPdf == <<wrapVars, correctVars, dbVars>>

Next ==
    \/ DrawName /\ UNCHANGED notPdf
    \/ DrawContacts /\ UNCHANGED notPdf
    \/ SummaryStart /\ UNCHANGED notPdf
    \/ SummaryBody /\ UNCHANGED notPdf
    \/ SkillsStart /\ UNCHANGED notPdf
    \/ SkillsBody /\ UNCHANGED notPdf
    \/ ExperienceStart /\ UNCHANGED notPdf
    \/ ExperienceEntry /\ UNCHANGED notPdf
    \/ ExperienceAdvance /\ UNCHANGED notPdf
    \/ ExperienceEnd /\ UNCHANGED notPdf
    \/ EducationStart /\ UNCHANGED notPdf
    \/ EducationEntry /\ UNCHANGED notPdf
    \/ EducationAdvance /\ UNCHANGED notPdf
    \/ EducationEnd /\ UNCHANGED notPdf
    \/ Save /\ UNCHANGED notPdf

Spec == Init /\ [][Next]_vars

\* split_text on every text and width of the bounds
InitWrap == WrapInit /\ PdfIdle /\ CorrectIdle /\ DbIdle
NextWrap == CallSplitText /\ UNCHANGED <<pdfVars, correctVars, dbVars>>
SpecWrap == InitWrap /\ [][NextWrap]_vars

\* correct_text on every text, environment and answer of the service
InitCorrect == CorrectInit /\ PdfIdle /\ WrapIdle /\ DbIdle
NextCorrect == CorrectText /\ UNCHANGED <<pdfVars, wrapVars, dbVars>>
SpecCorrect == InitCorrect /\ [][NextCorrect]_vars

\* NumRequests concurrent /api/generate requests
InitDb == DbInit /\ PdfIdle /\ WrapIdle /\ CorrectIdle

notDb == <<pdfVars, wrapVars, correctVars>>

NextDb ==
    \/ Tick /\ UNCHANGED notDb
    \/ \E r \in Requests : Reject(r) /\ UNCHANGED notDb
    \/ \E r \in Requests : Render(r) /\ UNCHANGED notDb
    \/ \E r \in Requests : Load(r) /\ UNCHANGED notDb
    \/ \E r \in Requests : SaveOpen(r) /\ UNCHANGED notDb
    \/ \E r \in Requests : SaveDump(r) /\ UNCHANGED notDb

SpecDb == InitDb /\ [][NextDb]_vars

(***************************************************************************)
(* Properties                                                              *)
(***************************************************************************)
SingleSpace == <<Space>>

\* C1: joining the lines split_text returns with single spaces gives the
\* whitespace-delimited tokens of the text joined by single spaces: nothing
\* dropped, duplicated or added, an empty line included.
C1_WrapReconstructs ==
    wrap_pc = "returned" => Join(lines, SingleSpace) = Join(Split(text), SingleSpace)

\* C2: every line split_text returns that holds more than one token is within
\* the budget, len(line) * 5 <= w; a line over the budget is one token that is
\* itself wider than w.
C2_WrapBudget ==
    wrap_pc = "returned" =>
        \A i \in 1..Len(lines) :
            LET tokens == Split(lines[i])
            IN /\ Len(tokens) > 1 => Len(lines[i]) * 5 <= max_width
               /\ Len(lines[i]) * 5 > max_width =>
                    /\ tokens = <<lines[i]>>
                    /\ \E k \in 1..Len(Split(text)) : Split(text)[k] = lines[i]

\* a wrapped result with a line of several tokens and a line that is one
\* overlong token
C2_Witness ==
    /\ wrap_pc = "returned"
    /\ \E i \in 1..Len(lines) : Len(Split(lines[i])) > 1
    /\ \E i \in 1..Len(lines) : Len(lines[i]) * 5 > max_width

\* C3: the cursor starts at pageHeight - 40 and every write to it during a
\* generate_pdf call strictly decreases it.
C3_CursorDecreases ==
    [][/\ pc = "name" => y = 792 - 40
       /\ y' # y => y' < y
       /\ pc' # pc => y' <= y]_vars

\* a document with all four sections has been rendered
C3_Witness ==
    /\ pc = "done"
    /\ headings = <<"Summary", "Skills", "Experience", "Education">>
    /\ y < 792 - 40 - 28 - 12 - 4 * 17

\* C4: one call of add_section_header lowers the cursor by 4 + (3 + 2) + 8 = 17
\* whatever the title and in both fill modes, draw_gradient_line returning 5.
C4_HeaderFixedCost ==
    [][headings' # headings =>
        /\ y' = y - 17
        /\ emitted'[1].y = y
        /\ emitted'[2].kind = (IF GRADIENT_SUPPORTED THEN "gradient" ELSE "rect")
        /\ emitted'[2].y = y - 4 - 3
        /\ y - 4 - emitted'[2].height - 2 - 8 = y']_vars

\* a header drawn in the solid-fill mode, after one drawn before it
C4_Witness ==
    /\ ~GRADIENT_SUPPORTED
    /\ pc = "skills_body"
    /\ headings = <<"Summary", "Skills">>
    /\ Len(emitted) = 2

Sections == {"summary", "skills", "experience", "education"}
SectionTitle(key) ==
    CASE key = "summary" -> "Summary"
      [] key = "skills" -> "Skills"
      [] key = "experience" -> "Experience"
      [] key = "education" -> "Education"
SectionOrder == <<"Summary", "Skills", "Experience", "Education">>

\* the titles of hs are in the order of SectionOrder, none twice
InSectionOrder(hs) ==
    \E pos \in [1..Len(hs) -> 1..Len(SectionOrder)] :
        /\ \A i \in 1..Len(hs) : SectionOrder[pos[i]] = hs[i]
        /\ \A i, j \in 1..Len(hs) : i < j => pos[i] < pos[j]

\* C5: a section whose data is empty or absent gets no heading, no divider
\* and no body text and leaves the cursor where it was; a section with data
\* gets its heading, and the headings come in the order Summary, Skills,
\* Experience, Education.
C5_EmptySectionSkipped ==
    [][\A key \in Sections :
        (pc = key /\ pc' # key) =>
            /\ IF key \notin DOMAIN doc' \/ doc'[key] = <<>>
               THEN y' = y /\ emitted' = <<>> /\ headings' = headings
               ELSE /\ headings' = Append(headings, SectionTitle(key))
                    /\ emitted'[1].text = SectionTitle(key)
            /\ InSectionOrder(headings')]_vars

\* Skills and Experience were skipped, Summary and Education rendered
C5_Witness ==
    /\ pc = "done"
    /\ headings = <<"Summary", "Education">>

\* the date line among the primitives of an entry, <<>> if there is none
DateLines(prims) == SelectSeq(prims, LAMBDA p : p.font = "Helvetica-Oblique")

\* what follows the dash of a date line
AfterDash(t) ==
    LET i == CHOOSE k \in 1..Len(t) : t[k] = "-" /\ \A m \in (k + 1)..Len(t) : t[m] # "-"
    IN SubSeq(t, i + 1, Len(t))

\* C6: an experience entry without endDate has "Present" in the end-date
\* position of its date line; an education entry without endDate has the
\* empty string there.
C6_EndDateAsymmetry ==
    /\ (pc = "experience_drawn" /\ "endDate" \notin DOMAIN doc) =>
            /\ Len(DateLines(emitted)) = 1
            /\ AfterDash(DateLines(emitted)[1].text) = <<Space>> \o Str_Present
    /\ (pc = "education_drawn" /\ "endDate" \notin DOMAIN doc) =>
            \A i \in 1..Len(DateLines(emitted)) :
                AfterDash(DateLines(emitted)[i].text) = <<>>

\* an education entry with a start date and no end date, after an experience
\* section
C6_Witness ==
    /\ pc = "education_drawn"
    /\ "endDate" \notin DOMAIN doc
    /\ "startDate" \in DOMAIN doc /\ doc["startDate"] # <<>>
    /\ headings = <<"Experience", "Education">>
    /\ Len(DateLines(emitted)) = 1

\* the two fields of the title line of the entry last drawn
TitleFirst == IF pc = "experience_drawn" THEN "position" ELSE "degree"
TitleSecond == IF pc = "experience_drawn" THEN "company" ELSE "institution"
EntryDrawn == pc \in {"experience_drawn", "education_drawn"}

\* C8 as stated: the title line is exactly first + " at " + second, a missing
\* field replaced by the empty string.
C8_TitleTemplateExact ==
    EntryDrawn =>
        emitted[1].text = Get(doc, TitleFirst, <<>>) \o <<" ", "a", "t", " ">>
                            \o Get(doc, TitleSecond, <<>>)

Spaces(n) == [i \in 1..n |-> Space]

\* C8 amended: the title line is first + " at " + second, a missing field
\* replaced by the empty string, with the whitespace at both ends removed:
\* "at" when both are missing, "at " + second when only the first is.
C8_TitleTemplateStripped ==
    EntryDrawn =>
        LET template == Get(doc, TitleFirst, <<>>) \o <<" ", "a", "t", " ">>
                          \o Get(doc, TitleSecond, <<>>)
            title == emitted[1].text
        IN /\ \E i, j \in 0..Len(template) : template = Spaces(i) \o title \o Spaces(j)
           /\ title # <<>> /\ title[1] # Space /\ title[Len(title)] # Space
           /\ (TitleFirst \notin DOMAIN doc /\ TitleSecond \notin DOMAIN doc) =>
                title = <<"a", "t">>
           /\ (TitleFirst \notin DOMAIN doc /\ TitleSecond \in DOMAIN doc) =>
                title = <<"a", "t", " ">> \o doc[TitleSecond]

\* an experience entry without position and without company
C8_Witness ==
    /\ pc = "experience_drawn"
    /\ "position" \notin DOMAIN doc
    /\ "company" \notin DOMAIN doc
    /\ emitted[1].text = <<"a", "t">>

\* C9: an entry gets its date line, and the 12 units for it, exactly when it
\* has a startDate or an endDate; without either its cost is 14 for the title,
\* 12 for each description line and 8 for the gap.
C9_DateLineIffDate ==
    EntryDrawn =>
        LET dated == "startDate" \in DOMAIN doc \/ "endDate" \in DOMAIN doc
            desc == Get(doc, "description", <<>>)
        IN /\ Len(DateLines(emitted)) = (IF dated THEN 1 ELSE 0)
           /\ ~dated => emitted[1].y - y = 14 + 12 * Len(split_text(desc, 500)) + 8

\* the service did not answer with a usable correction, or the credentials are
\* not both set
ServiceFailed ==
    \/ response.kind = "exception"
    \/ response.status_code # 200
    \/ ~response.is_json
    \/ LT_USERNAME = <<>>
    \/ LT_API_KEY = <<>>

\* C7: correct_text returns the text unchanged on every failure: an exception
\* of the request, a status other than 200, a malformed body, and missing
\* credentials.
C7_FallbackOnFailure ==
    (correct_pc = "returned" /\ ServiceFailed) => corrected = ctext

Range(q) == {q[i] : i \in 1..Len(q)}
Count(q, x) == Cardinality({i \in 1..Len(q) : q[i] = x})
NoSaveInProgress == \A r \in Requests : req_pc[r] # "writing"

\* C10: whenever no save is under way, the store holds, exactly once, the
\* record of every request that has been answered with success.
C10_AppendOnly ==
    NoSaveInProgress =>
        \A r \in Requests :
            req_pc[r] = "responded" =>
                /\ db_file.state = "written"
                /\ Count(db_file.entries, Record(r, req_id[r])) = 1

====
